---- MODULE Spec2Model ----
(***************************************************************************)
(* The pixel-processing unit of gb-emu-lib (GPU.cpp): the mode state       *)
(* machine driven by GPU::Step, the register bank and the video / object   *)
(* memory arbitration of GPU::ReadByte and GPU::WriteByte, GPU::PreBoot,   *)
(* GPU::SetVSyncCallback and the DMA copy.                                 *)
(*                                                                         *)
(* The collaborators are known by their presence: m_MMU, m_CPU and         *)
(* m_pVSyncCallback are TRUE when the pointer is not null.  A call through *)
(* a null pointer is undefined: the operation either fails (failed, after  *)
(* which the unit takes no further call) or goes on with stray values.     *)
(*                                                                         *)
(* The calls the unit makes on its collaborators during one operation      *)
(* (ICPU::TriggerInterrupt, the VSync callback, the scanline renderer) are *)
(* recorded, in call order, in irq, vsync and rendered; Step starts them    *)
(* empty and no other operation touches them, so they always hold the      *)
(* calls of the last Step; entry holds the mode and the display-enable bit *)
(* that Step started from.                                                 *)
(* RenderScanline is recorded by the row it writes, and the pixels it      *)
(* stores are carried for the cells of m_DisplayPixels named by            *)
(* PixelCells.  m_OAM is carried whole; m_VRAM is carried for the cells of *)
(* VRAMCells, and every other cell of video memory holds Filler, the byte  *)
(* the storage is taken to hold at construction.                           *)
(* A row of 144 or more lies outside m_DisplayPixels.  What the stores of  *)
(* such a row hit is undefined; GPU.hpp, which lays the members out, is    *)
(* not part of the sources.  The model lets them miss every member it      *)
(* carries, or overwrite m_VRAM, or overwrite m_OAM, with a colour of the  *)
(* row.                                                                    *)
(***************************************************************************)
EXTENDS Integers, Sequences, FiniteSets, TLC

VARIABLES
    m_MMU,                       \* TRUE iff the IMMU* given to the constructor is not null
    m_CPU,                       \* TRUE iff the ICPU* given to the constructor is not null
    m_pVSyncCallback,            \* TRUE iff a callback is registered (not nullptr)
    m_ModeClock,
    m_LCDControl,
    m_LCDControllerStatus,
    m_ScrollY,
    m_ScrollX,
    m_LCDControllerYCoordinate,
    m_LYCompare,
    m_WindowYPosition,
    m_WindowXPositionMinus7,
    m_BGPaletteData,
    m_ObjectPalette0Data,
    m_ObjectPalette1Data,
    m_VRAM,                      \* the modelled cells of m_VRAM, by offset
    m_OAM,                       \* m_OAM, by offset
    m_DisplayPixels,             \* the modelled cells of the framebuffer, by index
    irq,                         \* TriggerInterrupt calls of the last Step
    rendered,                    \* rows handed to RenderScanline by the last Step
    vsync,                       \* VSync callback invocations of the last Step
    entry,                       \* <<mode, display on>> as the last Step found them
    reads,                       \* addresses the last WriteByte handed to m_MMU->ReadByte
    failed                       \* TRUE once an operation went through a null pointer and died

regs == <<m_LCDControl, m_ScrollY, m_ScrollX, m_LYCompare, m_WindowYPosition,
          m_WindowXPositionMinus7, m_BGPaletteData, m_ObjectPalette0Data,
          m_ObjectPalette1Data>>

vars == <<m_MMU, m_CPU, m_pVSyncCallback, m_ModeClock, m_LCDControl, m_LCDControllerStatus,
          m_ScrollY, m_ScrollX, m_LCDControllerYCoordinate, m_LYCompare,
          m_WindowYPosition, m_WindowXPositionMinus7, m_BGPaletteData,
          m_ObjectPalette0Data, m_ObjectPalette1Data, m_VRAM, m_OAM,
          m_DisplayPixels, irq, rendered, vsync, entry, reads, failed>>

(***************************************************************************)
(* Program constants                                                       *)
(***************************************************************************)
\* Mode flag, STAT bits 1-0
ModeHBlank == 0
ModeVBlank == 1
ModeReadingOAM == 2
ModeReadingOAMVRAM == 3

\* Mode durations in clocks
ReadingOAMCycles == 80
ReadingOAMVRAMCycles == 172
HBlankCycles == 204
VBlankCycles == 456

\* Scanline numbers used by Step and PreBoot
VBlankStartLine == 144
LinesPerFrame == 154
LCDOffLine == 153
PreBootLine == 145

\* Register addresses
LCDControl == 65344
LCDControllerStatus == 65345
ScrollY == 65346
ScrollX == 65347
LCDControllerYCoordinate == 65348
LYCompare == 65349
DMATransferAndStartAddress == 65350
BGPaletteData == 65351
ObjectPalette0Data == 65352
ObjectPalette1Data == 65353
WindowYPosition == 65354
WindowXPositionMinus7 == 65355

\* Memory ranges
VRAMFirst == 32768
VRAMLast == 40959
OAMFirst == 65024
OAMLast == 65183

\* The width of a byte and of a ushort
ByteRange == 2 ^ 8

WordRange == 2 ^ 16

\* The framebuffer: m_DisplayPixels[160 * 144], row by row
ScreenWidth == 160
ScreenHeight == 144

\* const byte GBColors[], by shade index 0..3
GBColors == <<235, 196, 96, 0>>

INT40 == "INT40"
INT48 == "INT48"

(***************************************************************************)
(* Bounds of the model                                                     *)
(***************************************************************************)
\* Step is not taken when it would push the mode clock above MaxClock.
MaxClock == 532

\* The cells of video memory the model carries: the first two tiles' first rows, the
\* first entry of the tile map at 0x9800 and the last byte
VRAMCells == {0, 1, 16, 17, 6144, 8191}

\* The byte every cell of storage the constructor does not set is taken to start with
Filler == 165

\* The cells of the framebuffer the model carries: the first eight pixels of row 0
PixelCells == 0..7

(***************************************************************************)
(* Bit macros                                                              *)
(***************************************************************************)
ISBITSET(val, bit) == (val \div (2 ^ bit)) % 2 = 1

SETBIT(val, bit) == IF ISBITSET(val, bit) THEN val ELSE val + 2 ^ bit

CLEARBIT(val, bit) == IF ISBITSET(val, bit) THEN val - 2 ^ bit ELSE val

IsLCDDisplayEnabled == ISBITSET(m_LCDControl, 7)

LYCoincidenceInterrupt(stat) == ISBITSET(stat, 6)

OAMInterrupt(stat) == ISBITSET(stat, 5)

VBlankInterrupt(stat) == ISBITSET(stat, 4)

HBlankInterrupt(stat) == ISBITSET(stat, 3)

\* (stat & ~0x03) | mode
SETMODE(stat, mode) == (stat - (stat % 4)) + mode

\* stat & 0x03
GETMODE(stat) == stat % 4

(***************************************************************************)
(* GPU::Step.  The registers Step works on are carried in a record         *)
(*   [stat, clock, ly, irq, rendered, vsync]                               *)
(* through the switch on the mode and the coincidence test that follows.   *)
(***************************************************************************)
\* m_CPU->TriggerInterrupt(kind), guarded by m_CPU != nullptr at every call site;
\* at names the call site
TriggerInterrupt(s, kind, at) ==
    IF m_CPU THEN [s EXCEPT !.irq = Append(@, [kind |-> kind, at |-> at])] ELSE s

(***************************************************************************)
(* The scanline renderers.  They work on the record Step carries: the      *)
(* row is s.ly, the mode ReadByte arbitrates on is the one in s.stat.      *)
(***************************************************************************)
\* m_VRAM[offset]
VRAMAt(offset) == IF offset \in DOMAIN m_VRAM THEN m_VRAM[offset] ELSE Filler

\* ReadByte(address) as the renderers call it
RenderRead(s, address) ==
    IF address >= VRAMFirst /\ address <= VRAMLast
    THEN IF ISBITSET(m_LCDControl, 7) /\ GETMODE(s.stat) = ModeReadingOAMVRAM
         THEN 0
         ELSE VRAMAt(address - VRAMFirst)
    ELSE 0

\* static_cast<sbyte>(tileNumber)
SByte(b) == IF b >= 128 THEN b - ByteRange ELSE b

\* (data >> 2 * k) & 0x03
PaletteEntry(data, k) == (data \div (4 ^ k)) % 4

\* The colour RenderBackgroundScanline computes for column x when BGDisplayEnable
BackgroundColor(s, x) ==
    LET tileNumberMap == IF ISBITSET(m_LCDControl, 3) THEN 39936 ELSE 38912
        line == s.ly + m_ScrollY
        tileY == (line \div 8) % 32
        tileYOffset == line % 8
        tileX == ((m_ScrollX + x) \div 8) % 32
        tileNumber == RenderRead(s, (tileNumberMap + tileY * 32 + tileX) % WordRange)
        tileData == IF ISBITSET(m_LCDControl, 4)
                    THEN (32768 + tileNumber * 16) % WordRange
                    ELSE (36864 + SByte(tileNumber) * 16) % WordRange
        tileDataPtr == (tileData + tileYOffset * 2) % WordRange
        b1 == RenderRead(s, tileDataPtr)
        b2 == RenderRead(s, (tileDataPtr + 1) % WordRange)
        bit == 7 - ((m_ScrollX + x) % 8)
        pLo == IF ISBITSET(b1, bit) THEN 1 ELSE 0
        pHi == IF ISBITSET(b2, bit) THEN 2 ELSE 0
    IN  GBColors[PaletteEntry(m_BGPaletteData, pLo + pHi) + 1]

\* RenderBackgroundScanline(): m_DisplayPixels[(LY * 160) + x] for x in 0..159
RenderBackgroundScanline(s) ==
    [s EXCEPT !.pixels =
        [index \in DOMAIN s.pixels |->
            IF index \div ScreenWidth = s.ly
            THEN IF ~ISBITSET(m_LCDControl, 0)
                 THEN GBColors[1]
                 ELSE BackgroundColor(s, index % ScreenWidth)
            ELSE s.pixels[index]]]

\* The test that lets a sprite pixel that is not transparent into the framebuffer:
\* priority 0, or the pixel there equal to 0x00
SpriteShows(spriteFlags, existing) == ~ISBITSET(spriteFlags, 7) \/ existing = 0

\* The body of the sprite loop for the sprite at m_OAM[i]
RenderSprite(s, pixels, i) ==
    LET objY == m_OAM[i]
        height == IF ISBITSET(m_LCDControl, 2) THEN 16 ELSE 8
        y == objY - 16
        objX == m_OAM[i + 1]
        spriteFlags == m_OAM[i + 3]
        spriteTileNumber == IF height = 16 THEN m_OAM[i + 2] - (m_OAM[i + 2] % 2)
                            ELSE m_OAM[i + 2]
        data == IF ISBITSET(spriteFlags, 4) THEN m_ObjectPalette1Data
                ELSE m_ObjectPalette0Data
        x == objX - 8
        tileYOffset == (IF ISBITSET(spriteFlags, 6) THEN (height - 1) - (s.ly - y)
                        ELSE s.ly - y) % ByteRange
        tilePointer == (32768 + spriteTileNumber * 16 + tileYOffset * 2) % WordRange
        low == RenderRead(s, tilePointer)
        high == RenderRead(s, (tilePointer + 1) % WordRange)
        Pixel(index) ==
            LET indexX == (index % ScreenWidth) - x
                bit == IF ISBITSET(spriteFlags, 5) THEN indexX ELSE 7 - indexX
                pixelVal == (IF ISBITSET(high, bit) THEN 2 ELSE 0)
                                + (IF ISBITSET(low, bit) THEN 1 ELSE 0)
            IN  IF /\ index \div ScreenWidth = s.ly
                   /\ indexX >= 0 /\ indexX < 8
                   /\ pixelVal # 0
                   /\ SpriteShows(spriteFlags, pixels[index])
                THEN GBColors[PaletteEntry(data, pixelVal) + 1]
                ELSE pixels[index]
    IN  IF y <= s.ly /\ y + height > s.ly
        THEN [index \in DOMAIN pixels |-> Pixel(index)]
        ELSE pixels

\* for (byte i = 0; i < 160; i += 4)
RECURSIVE SpriteLoop(_, _, _)
SpriteLoop(s, pixels, i) ==
    IF i < 160 THEN SpriteLoop(s, RenderSprite(s, pixels, i), i + 4) ELSE pixels

\* RenderOBJScanline()
RenderOBJScanline(s) == [s EXCEPT !.pixels = SpriteLoop(s, s.pixels, 0)]


\* RenderScanline(): the row written is the current scanline
RenderScanline(s) ==
    LET a == RenderBackgroundScanline([s EXCEPT !.rendered = Append(@, s.ly)])
    IN  IF ISBITSET(m_LCDControl, 1) THEN RenderOBJScanline(a) ELSE a

\* Mutant: a frame that is handed over twice
RenderImage_Twice(s) ==
    IF m_pVSyncCallback THEN [s EXCEPT !.vsync = @ + 2] ELSE s

\* RenderImage(): the callback is invoked when one is registered
RenderImage(s) ==
    IF m_pVSyncCallback THEN [s EXCEPT !.vsync = @ + 1] ELSE s

\* m_LCDControllerYCoordinate++ on a byte
IncrementLine(ly) == (ly + 1) % ByteRange

\* Mutant: the early exit that forgets to park the scanline and the clock
StepDisplayOff_ModeOnly(s) ==
    [s EXCEPT !.stat = SETMODE(s.stat, ModeVBlank)]

\* The display is off: reset and leave early
StepDisplayOff(s) ==
    [s EXCEPT !.ly = LCDOffLine,
              !.clock = VBlankCycles,
              !.stat = SETMODE(s.stat, ModeVBlank)]

\* case ModeReadingOAM
StepReadingOAM(s) ==
    IF s.clock >= ReadingOAMCycles
    THEN [s EXCEPT !.clock = @ - ReadingOAMCycles,
                   !.stat = SETMODE(@, ModeReadingOAMVRAM)]
    ELSE s

\* Mutant: an HBlank entry that requests the LCD-STAT interrupt whatever bit 3 says
StepReadingOAMVRAM_AlwaysRequests(s) ==
    IF s.clock >= ReadingOAMVRAMCycles
    THEN LET a == [s EXCEPT !.clock = @ - ReadingOAMVRAMCycles,
                            !.stat = SETMODE(@, ModeHBlank)]
             b == RenderScanline(a)
         IN  TriggerInterrupt(b, INT48, "HBlank")
    ELSE s

\* case ModeReadingOAMVRAM
StepReadingOAMVRAM(s) ==
    IF s.clock >= ReadingOAMVRAMCycles
    THEN LET a == [s EXCEPT !.clock = @ - ReadingOAMVRAMCycles,
                            !.stat = SETMODE(@, ModeHBlank)]
             b == RenderScanline(a)
         IN  IF HBlankInterrupt(b.stat) THEN TriggerInterrupt(b, INT48, "HBlank") ELSE b
    ELSE s

\* Mutant: a VBlank interrupt that waits for the STAT enable bit
EnterVBlank_StatGated(s) ==
    LET a == [s EXCEPT !.stat = SETMODE(@, ModeVBlank)]
        b == RenderImage(a)
    IN  IF VBlankInterrupt(b.stat)
        THEN TriggerInterrupt(TriggerInterrupt(b, INT40, "VBlank"), INT48, "VBlank")
        ELSE b

\* case ModeHBlank, the branch that enters VBlank
EnterVBlank(s) ==
    LET a == [s EXCEPT !.stat = SETMODE(@, ModeVBlank)]
        b == RenderImage(a)
        c == TriggerInterrupt(b, INT40, "VBlank")
    IN  IF VBlankInterrupt(c.stat) THEN TriggerInterrupt(c, INT48, "VBlank") ELSE c

\* Mutant: HBlank that ends only when the clock is past its duration
StepHBlank_StrictCompare(s) ==
    IF s.clock > HBlankCycles
    THEN LET a == [s EXCEPT !.clock = @ - HBlankCycles,
                            !.ly = IncrementLine(@)]
         IN  IF a.ly = VBlankStartLine
             THEN EnterVBlank(a)
             ELSE [a EXCEPT !.stat = SETMODE(@, ModeReadingOAM)]
    ELSE s

\* case ModeHBlank
StepHBlank(s) ==
    IF s.clock >= HBlankCycles
    THEN LET a == [s EXCEPT !.clock = @ - HBlankCycles,
                            !.ly = IncrementLine(@)]
         IN  IF a.ly = VBlankStartLine
             THEN EnterVBlank(a)
             ELSE [a EXCEPT !.stat = SETMODE(@, ModeReadingOAM)]
    ELSE s

\* Mutant: a VBlank whose return to the top requests the LCD-STAT interrupt when
\* STAT bit 5 is set
StepVBlank_OAMInterrupt(s) ==
    IF s.clock >= VBlankCycles
    THEN LET a == [s EXCEPT !.clock = @ - VBlankCycles,
                            !.ly = IncrementLine(@)]
             b == [a EXCEPT !.stat = SETMODE(@, ModeReadingOAM), !.ly = 0]
         IN  IF a.ly = LinesPerFrame
             THEN IF ISBITSET(b.stat, 5) /\ m_CPU
                  THEN [b EXCEPT !.irq = Append(@, [kind |-> INT48, at |-> "OAM"])]
                  ELSE b
             ELSE a
    ELSE s

\* Mutant: a VBlank that goes back to the top one line early
StepVBlank_ShortFrame(s) ==
    IF s.clock >= VBlankCycles
    THEN LET a == [s EXCEPT !.clock = @ - VBlankCycles,
                            !.ly = IncrementLine(@)]
         IN  IF a.ly = LinesPerFrame - 1
             THEN [a EXCEPT !.stat = SETMODE(@, ModeReadingOAM), !.ly = 0]
             ELSE a
    ELSE s

\* case ModeVBlank
StepVBlank(s) ==
    IF s.clock >= VBlankCycles
    THEN LET a == [s EXCEPT !.clock = @ - VBlankCycles,
                            !.ly = IncrementLine(@)]
         IN  IF a.ly = LinesPerFrame
             THEN [a EXCEPT !.stat = SETMODE(@, ModeReadingOAM), !.ly = 0]
             ELSE a
    ELSE s

\* Mutant: a switch that falls through from OAM search into the VRAM case
StepMode_FallThrough(s) ==
    CASE GETMODE(s.stat) = ModeReadingOAM -> StepReadingOAMVRAM(StepReadingOAM(s))
      [] GETMODE(s.stat) = ModeReadingOAMVRAM -> StepReadingOAMVRAM(s)
      [] GETMODE(s.stat) = ModeHBlank -> StepHBlank(s)
      [] GETMODE(s.stat) = ModeVBlank -> StepVBlank(s)

\* switch (GETMODE)
StepMode(s) ==
    CASE GETMODE(s.stat) = ModeReadingOAM -> StepReadingOAM(s)
      [] GETMODE(s.stat) = ModeReadingOAMVRAM -> StepReadingOAMVRAM(s)
      [] GETMODE(s.stat) = ModeHBlank -> StepHBlank(s)
      [] GETMODE(s.stat) = ModeVBlank -> StepVBlank(s)

\* Mutant: a coincidence test that never clears the flag
Coincidence_NoClear(s) ==
    IF m_LYCompare = s.ly
    THEN LET a == [s EXCEPT !.stat = SETBIT(@, 2)]
         IN  IF LYCoincidenceInterrupt(a.stat)
             THEN TriggerInterrupt(a, INT48, "Coincidence")
             ELSE a
    ELSE s

\* Bit 2 - Coincidence Flag, evaluated after the switch
Coincidence(s) ==
    IF m_LYCompare = s.ly
    THEN LET a == [s EXCEPT !.stat = SETBIT(@, 2)]
         IN  IF LYCoincidenceInterrupt(a.stat)
             THEN TriggerInterrupt(a, INT48, "Coincidence")
             ELSE a
    ELSE [s EXCEPT !.stat = CLEARBIT(@, 2)]

\* The registers as Step finds them, with nothing called yet
StepEntry ==
    [stat |-> m_LCDControllerStatus, clock |-> m_ModeClock,
     ly |-> m_LCDControllerYCoordinate, irq |-> <<>>, rendered |-> <<>>, vsync |-> 0,
     pixels |-> m_DisplayPixels]

\* The whole of Step as a function of the registers and the cycles
StepResult(cycles) ==
    IF ~IsLCDDisplayEnabled
    THEN StepDisplayOff(StepEntry)
    ELSE Coincidence(StepMode([StepEntry EXCEPT !.clock = @ + cycles]))

\* The colours RenderScanline stores in a row
RowColors ==
    IF ISBITSET(m_LCDControl, 0) \/ ISBITSET(m_LCDControl, 1)
    THEN {GBColors[k] : k \in 1..4}
    ELSE {GBColors[1]}

\* What an array next to the framebuffer may hold after the stores of the rows in
\* rows: as before when every row is inside the framebuffer
StrayStores(rows, array) ==
    IF \E i \in DOMAIN rows : rows[i] >= ScreenHeight
    THEN {array} \cup {[offset \in DOMAIN array |-> color] : color \in RowColors}
    ELSE {array}

Step(cycles) ==
    /\ ~failed
    /\ IsLCDDisplayEnabled => m_ModeClock + cycles <= MaxClock
    /\ \E r \in {StepResult(cycles)} :
           /\ m_LCDControllerStatus' = r.stat
           /\ m_ModeClock' = r.clock
           /\ m_LCDControllerYCoordinate' = r.ly
           /\ irq' = r.irq
           /\ rendered' = r.rendered
           /\ vsync' = r.vsync
           /\ m_DisplayPixels' = r.pixels
           /\ m_VRAM' \in StrayStores(r.rendered, m_VRAM)
           /\ m_OAM' \in StrayStores(r.rendered, m_OAM)
    /\ entry' = <<GETMODE(m_LCDControllerStatus), IsLCDDisplayEnabled>>
    /\ UNCHANGED <<regs, m_MMU, m_CPU, m_pVSyncCallback, reads, failed>>

(***************************************************************************)
(* GPU::ReadByte and GPU::WriteByte                                        *)
(***************************************************************************)
InVRAM(address) == address >= VRAMFirst /\ address <= VRAMLast

InOAM(address) == address >= OAMFirst /\ address <= OAMLast

\* Mutant: video memory blocked by the mode alone
VRAMBlocked_ModeOnly ==
    GETMODE(m_LCDControllerStatus) = ModeReadingOAMVRAM

\* IsLCDDisplayEnabled && (GETMODE == ModeReadingOAMVRAM)
VRAMBlocked ==
    IsLCDDisplayEnabled /\ GETMODE(m_LCDControllerStatus) = ModeReadingOAMVRAM

\* Mutant: object memory blocked during OAM search only
OAMBlocked_SearchOnly ==
    IsLCDDisplayEnabled /\ GETMODE(m_LCDControllerStatus) = ModeReadingOAM

\* IsLCDDisplayEnabled && (GETMODE == ModeReadingOAM || GETMODE == ModeReadingOAMVRAM)
OAMBlocked ==
    IsLCDDisplayEnabled /\ (\/ GETMODE(m_LCDControllerStatus) = ModeReadingOAM
                            \/ GETMODE(m_LCDControllerStatus) = ModeReadingOAMVRAM)

\* The switch of ReadByte over the register addresses
ReadRegister(address) ==
    CASE address = LCDControl -> m_LCDControl
      [] address = LCDControllerStatus -> m_LCDControllerStatus
      [] address = ScrollY -> m_ScrollY
      [] address = ScrollX -> m_ScrollX
      [] address = LCDControllerYCoordinate -> m_LCDControllerYCoordinate
      [] address = LYCompare -> m_LYCompare
      [] address = WindowYPosition -> m_WindowYPosition
      [] address = WindowXPositionMinus7 -> m_WindowXPositionMinus7
      [] address = BGPaletteData -> m_BGPaletteData
      [] address = ObjectPalette0Data -> m_ObjectPalette0Data
      [] address = ObjectPalette1Data -> m_ObjectPalette1Data
      [] OTHER -> 0

\* ReadByte changes nothing: it is the value it returns in the current state
ReadByte(address) ==
    IF InVRAM(address)
    THEN IF VRAMBlocked THEN 0 ELSE VRAMAt(address - VRAMFirst)
    ELSE IF InOAM(address)
         THEN IF OAMBlocked THEN 0 ELSE m_OAM[address - OAMFirst]
         ELSE ReadRegister(address)

\* m_MMU->ReadByte(address): the byte the rest of the machine holds there
ExternalByte(address) == ((address \div ByteRange) + 3 * (address % ByteRange) + 1) % ByteRange

\* for (byte offset = 0x00; offset <= 0x9F; offset++): the number of passes
DMALength == 160

\* The values object memory may be left with by reads through a null m_MMU
StrayBytes == {0, 255}

\* Mutant: the written byte taken as the source address itself
DMASource_Unscaled(address) == address

\* ushort source = static_cast<ushort>(address) * 0x0100
DMASource(address) == (address * ByteRange) % (ByteRange * ByteRange)

\* The addresses handed to m_MMU->ReadByte, in call order: source | offset, which is
\* source + offset because the low byte of source is 0
DMAReads(address) == [i \in 1..DMALength |-> DMASource(address) + (i - 1)]

\* LaunchDMATransfer(address): the outcomes it can have.  With an external memory,
\* m_OAM[offset] takes the byte read at source | offset; m_MMU is dereferenced without
\* a test, so without one the call dies or leaves stray bytes.
LaunchDMATransfer(address) ==
    IF m_MMU
    THEN {[oam |-> [offset \in DOMAIN m_OAM |-> ExternalByte(DMASource(address) + offset)],
           reads |-> DMAReads(address), failed |-> FALSE]}
    ELSE {[oam |-> m_OAM, reads |-> <<>>, failed |-> TRUE]}
         \cup {[oam |-> [offset \in DOMAIN m_OAM |-> b], reads |-> <<>>, failed |-> FALSE] :
                    b \in StrayBytes}

\* The video memory a write leaves
WriteVRAM(address, val) ==
    IF InVRAM(address) /\ ~VRAMBlocked
    THEN [m_VRAM EXCEPT ![address - VRAMFirst] = val]
    ELSE m_VRAM

\* The object memory a write to an address other than the DMA trigger leaves
WriteOAM(address, val) ==
    IF InOAM(address) /\ ~OAMBlocked
    THEN [m_OAM EXCEPT ![address - OAMFirst] = val]
    ELSE m_OAM

\* Mutant: a status write that stores the whole byte
WriteStatus_WholeByte(val) == val

\* case LCDControllerStatus: bits 7-3 are writable, bits 2-0 are read only
WriteStatus(val) == (val - (val % 8)) + (m_LCDControllerStatus % 8)

\* Mutant: a scanline write that stores the written byte
WriteScanline_StoresValue(val) == val

\* case LCDControllerYCoordinate: whatever is written, the scanline becomes 0
WriteScanline(val) == 0

\* A register whose case stores val
WriteRegister(address, register, old, val) ==
    IF address = register THEN val ELSE old

WriteByte(address, val) ==
    /\ ~failed
    /\ m_VRAM' = WriteVRAM(address, val)
    /\ IF address = DMATransferAndStartAddress
       THEN \E outcome \in LaunchDMATransfer(val) :
                /\ m_OAM' = outcome.oam
                /\ reads' = outcome.reads
                /\ failed' = outcome.failed
       ELSE /\ m_OAM' = WriteOAM(address, val)
            /\ reads' = <<>>
            /\ failed' = FALSE
    /\ m_LCDControl' = WriteRegister(address, LCDControl, m_LCDControl, val)
    /\ m_LCDControllerStatus' =
           WriteRegister(address, LCDControllerStatus, m_LCDControllerStatus, WriteStatus(val))
    /\ m_ScrollY' = WriteRegister(address, ScrollY, m_ScrollY, val)
    /\ m_ScrollX' = WriteRegister(address, ScrollX, m_ScrollX, val)
    /\ m_LCDControllerYCoordinate' =
           WriteRegister(address, LCDControllerYCoordinate, m_LCDControllerYCoordinate,
                         WriteScanline(val))
    /\ m_LYCompare' = WriteRegister(address, LYCompare, m_LYCompare, val)
    /\ m_WindowYPosition' = WriteRegister(address, WindowYPosition, m_WindowYPosition, val)
    /\ m_WindowXPositionMinus7' =
           WriteRegister(address, WindowXPositionMinus7, m_WindowXPositionMinus7, val)
    /\ m_BGPaletteData' = WriteRegister(address, BGPaletteData, m_BGPaletteData, val)
    /\ m_ObjectPalette0Data' =
           WriteRegister(address, ObjectPalette0Data, m_ObjectPalette0Data, val)
    /\ m_ObjectPalette1Data' =
           WriteRegister(address, ObjectPalette1Data, m_ObjectPalette1Data, val)
    /\ UNCHANGED <<irq, rendered, vsync, entry>>
    /\ UNCHANGED <<m_MMU, m_CPU, m_pVSyncCallback, m_ModeClock, m_DisplayPixels>>

(***************************************************************************)
(* GPU::SetVSyncCallback and GPU::PreBoot                                  *)
(***************************************************************************)
SetVSyncCallback(pCallback) ==
    /\ ~failed
    /\ m_pVSyncCallback' = pCallback
    /\ UNCHANGED <<irq, rendered, vsync, entry, reads, failed>>
    /\ UNCHANGED <<regs, m_MMU, m_CPU, m_ModeClock, m_LCDControllerStatus,
                   m_LCDControllerYCoordinate, m_VRAM, m_OAM, m_DisplayPixels>>

PreBoot ==
    /\ ~failed
    /\ m_LCDControllerYCoordinate' = PreBootLine
    /\ m_ScrollY' = 0
    /\ m_ScrollX' = 0
    /\ m_LYCompare' = 0
    /\ m_BGPaletteData' = 252
    /\ m_ObjectPalette0Data' = 255
    /\ m_ObjectPalette1Data' = 255
    /\ m_WindowYPosition' = 0
    /\ m_WindowXPositionMinus7' = 0
    /\ UNCHANGED <<irq, rendered, vsync, entry, reads, failed>>
    /\ UNCHANGED <<m_MMU, m_CPU, m_pVSyncCallback, m_ModeClock, m_LCDControl,
                   m_LCDControllerStatus, m_VRAM, m_OAM, m_DisplayPixels>>

(***************************************************************************)
(* The constructor.  It sets the mode bits of m_LCDControllerStatus with   *)
(* SETMODE and leaves the other bits, m_VRAM and m_OAM as it finds them:   *)
(* they start with whatever the storage held.  It clears the framebuffer.  *)
(***************************************************************************)
\* Video and object memory that hold Filler throughout
PlainVRAM == [offset \in VRAMCells |-> Filler]

PlainOAM == [offset \in 0..(OAMLast - OAMFirst) |-> Filler]

Constructed(pMMU, pCPU, statusBits, videoMemory, objectMemory) ==
    /\ m_MMU \in pMMU
    /\ m_CPU \in pCPU
    /\ m_pVSyncCallback = FALSE
    /\ m_ModeClock = 0
    /\ m_LCDControl = 0
    /\ m_LCDControllerStatus \in {SETMODE(v, ModeVBlank) : v \in statusBits}
    /\ m_ScrollY = 0
    /\ m_ScrollX = 0
    /\ m_LCDControllerYCoordinate = 0
    /\ m_LYCompare = 0
    /\ m_WindowYPosition = 0
    /\ m_WindowXPositionMinus7 = 0
    /\ m_BGPaletteData = 0
    /\ m_ObjectPalette0Data = 0
    /\ m_ObjectPalette1Data = 0
    /\ m_VRAM \in videoMemory
    /\ m_OAM \in objectMemory
    /\ m_DisplayPixels = [index \in PixelCells |-> 0]
    /\ irq = <<>>
    /\ rendered = <<>>
    /\ vsync = 0
    /\ entry = <<>>
    /\ reads = <<>>
    /\ failed = FALSE

(***************************************************************************)
(* The machine under the calls of its host.  Spec drives the timing: the   *)
(* cycle counts are a short step (below every mode duration) and a whole   *)
(* line, and the writes are those to the registers Step reads.             *)
(***************************************************************************)
CycleSet == {76, 456}

TimingWrites ==
    {<<LCDControl, 0>>, <<LCDControl, 128>>,
     <<LCDControllerStatus, 79>>, <<LCDControllerStatus, 183>>,
     <<LCDControllerYCoordinate, 85>>,
     <<LYCompare, 0>>, <<LYCompare, 144>>}

Init == Constructed({TRUE}, BOOLEAN, {0, 183}, {PlainVRAM}, {PlainOAM})

Next ==
    \/ \E cycles \in CycleSet : Step(cycles)
    \/ \E w \in TimingWrites : WriteByte(w[1], w[2])
    \/ \E pCallback \in BOOLEAN : SetVSyncCallback(pCallback)

Spec == Init /\ [][Next]_vars

(***************************************************************************)
(* SpecMem drives the register bank and the memory arbiter: every kind of  *)
(* address WriteByte tells apart (both ends of video and object memory,    *)
(* the addresses next to them, every register), under a clock that steps  *)
(* by half a line.  The DMA trigger is driven by SpecBoot.                 *)
(***************************************************************************)
MemoryCycles == {228}

MemoryWrites ==
    {<<VRAMFirst, 90>>, <<VRAMLast, 90>>, <<VRAMFirst - 1, 90>>, <<VRAMLast + 1, 90>>,
     <<OAMFirst, 60>>, <<OAMLast, 60>>, <<OAMFirst - 1, 60>>, <<OAMLast + 1, 60>>,
     <<LCDControl, 0>>, <<LCDControl, 128>>,
     <<LCDControllerStatus, 0>>, <<LCDControllerStatus, 255>>,
     <<ScrollY, 0>>, <<ScrollX, 0>>,
     <<LCDControllerYCoordinate, 85>>,
     <<LYCompare, 0>>,
     <<WindowYPosition, 0>>, <<WindowXPositionMinus7, 0>>,
     <<BGPaletteData, 228>>, <<ObjectPalette0Data, 0>>, <<ObjectPalette1Data, 0>>}

InitMem == Constructed({TRUE}, {TRUE}, {0}, {PlainVRAM}, {PlainOAM})

NextMem ==
    \/ \E cycles \in MemoryCycles : Step(cycles)
    \/ \E w \in MemoryWrites : WriteByte(w[1], w[2])

SpecMem == InitMem /\ [][NextMem]_vars

(***************************************************************************)
(* SpecBoot is the machine as a host may set it up and boot it: with or    *)
(* without an external memory, short steps, the display switched on and    *)
(* off, a DMA transfer, and PreBoot called at any point of the frame.      *)
(***************************************************************************)
BootCycles == {76}

BootWrites == {<<LCDControl, 0>>, <<LCDControl, 128>>}

\* The bytes written to the DMA trigger
BootTransfers == {193}

InitBoot == Constructed(BOOLEAN, {TRUE}, {0}, {PlainVRAM}, {PlainOAM})

NextBoot ==
    \/ \E cycles \in BootCycles : Step(cycles)
    \/ \E w \in BootWrites : WriteByte(w[1], w[2])
    \/ \E val \in BootTransfers : WriteByte(DMATransferAndStartAddress, val)
    \/ PreBoot

SpecBoot == InitBoot /\ [][NextBoot]_vars

(***************************************************************************)
(* SpecFrame is the machine under a host that runs one CPU operation after *)
(* the other: the display is switched on once, and Step is called with the *)
(* four clocks of the shortest operation or with a whole line.             *)
(***************************************************************************)
FrameCycles == {4, 456}

FrameWrites == {<<LCDControl, 128>>}

InitFrame == Constructed({TRUE}, {TRUE}, {0}, {PlainVRAM}, {PlainOAM})

NextFrame ==
    \/ \E cycles \in FrameCycles : Step(cycles)
    \/ \E w \in FrameWrites : WriteByte(w[1], w[2])

SpecFrame == InitFrame /\ [][NextFrame]_vars

(***************************************************************************)
(* SpecRender is the machine with something to draw.  The storage the      *)
(* constructor leaves as it finds it holds, in object memory, sprite 0 at  *)
(* the top left corner of the screen (Y 16, X 8) with tile 1, above or     *)
(* behind the background, and in video memory tile 1 with a first row of   *)
(* eight pixels of colour 1, tile 0 with a first row of four pixels of     *)
(* colour 1 and four of colour 0, and tile 0 in the first entry of the     *)
(* tile map.  The host switches the display on with sprites and with or    *)
(* without the background, and sets the palettes.                          *)
(***************************************************************************)
RenderCycles == {76}

RenderWrites ==
    {<<LCDControl, 130>>, <<LCDControl, 147>>,
     <<BGPaletteData, 12>>, <<ObjectPalette0Data, 228>>}

RenderVRAM ==
    {[offset \in VRAMCells |->
         CASE offset = 0 -> 240
           [] offset = 1 -> 0
           [] offset = 16 -> 255
           [] offset = 17 -> 0
           [] offset = 6144 -> 0
           [] OTHER -> Filler]}

RenderOAM ==
    {[offset \in 0..(OAMLast - OAMFirst) |->
         CASE offset = 0 -> 16
           [] offset = 1 -> 8
           [] offset = 2 -> 1
           [] offset = 3 -> spriteFlags
           [] OTHER -> Filler] : spriteFlags \in {0, 128}}

InitRender == Constructed({TRUE}, {TRUE}, {0}, RenderVRAM, RenderOAM)

NextRender ==
    \/ \E cycles \in RenderCycles : Step(cycles)
    \/ \E w \in RenderWrites : WriteByte(w[1], w[2])

SpecRender == InitRender /\ [][NextRender]_vars

(***************************************************************************)
(* SpecOAM is the machine with the STAT enable bits at work: with or       *)
(* without a CPU, the host switches the display on, writes the status      *)
(* register with bits 6, 4 and 3 set and bit 5 set or clear, and moves the *)
(* scanline-compare register from 0 to 1.                                  *)
(***************************************************************************)
OAMCycles == {76, 456}

OAMWrites ==
    {<<LCDControl, 128>>,
     <<LCDControllerStatus, 88>>, <<LCDControllerStatus, 120>>,
     <<LYCompare, 1>>}

InitOAM == Constructed({TRUE}, BOOLEAN, {0}, {PlainVRAM}, {PlainOAM})

NextOAM ==
    \/ \E cycles \in OAMCycles : Step(cycles)
    \/ \E w \in OAMWrites : WriteByte(w[1], w[2])

SpecOAM == InitOAM /\ [][NextOAM]_vars

(***************************************************************************)
(* Vocabulary of the properties                                            *)
(***************************************************************************)
Mode == GETMODE(m_LCDControllerStatus)

\* The duration Step compares the mode clock with in each mode
Threshold(mode) ==
    CASE mode = ModeReadingOAM -> ReadingOAMCycles
      [] mode = ModeReadingOAMVRAM -> ReadingOAMVRAMCycles
      [] mode = ModeHBlank -> HBlankCycles
      [] mode = ModeVBlank -> VBlankCycles

\* How many of the recorded interrupt requests are of a kind, or come from a call site
CountKind(requests, kind) ==
    Cardinality({i \in DOMAIN requests : requests[i].kind = kind})

CountAt(requests, kind, at) ==
    Cardinality({i \in DOMAIN requests : requests[i].kind = kind /\ requests[i].at = at})

\* Every cycle count either specification hands to Step
AllCycles == CycleSet \cup MemoryCycles \cup BootCycles

AllWrites == TimingWrites \cup MemoryWrites \cup BootWrites

\* The writes WriteByte takes as video memory, object memory and status writes
VideoWrites == {w \in AllWrites : w[1] >= 32768 /\ w[1] <= 40959}

ObjectWrites == {w \in AllWrites : w[1] >= 65024 /\ w[1] <= 65183}

StatusWrites == {w \in AllWrites : w[1] = 65345}

(***************************************************************************)
(* C1.  A Step taken while the display is off leaves scanline 153, mode    *)
(* VBlank and the mode clock at the VBlank duration, whatever the state    *)
(* before and whatever the cycle count; it renders nothing, does not call  *)
(* the VSync callback, requests no interrupt and leaves the coincidence    *)
(* bit as it was.                                                          *)
(***************************************************************************)
C1_StepDisplayOff ==
    /\ m_LCDControllerYCoordinate' = 153
    /\ GETMODE(m_LCDControllerStatus') = ModeVBlank
    /\ m_ModeClock' = VBlankCycles
    /\ rendered' = <<>>
    /\ vsync' = 0
    /\ irq' = <<>>
    /\ ISBITSET(m_LCDControllerStatus', 2) = ISBITSET(m_LCDControllerStatus, 2)
    /\ m_LCDControllerStatus' \div 4 = m_LCDControllerStatus \div 4

C1_DisplayOffReset ==
    \A cycles \in AllCycles :
        ~ISBITSET(m_LCDControl, 7) => ~ENABLED (Step(cycles) /\ ~C1_StepDisplayOff)

\* The last Step found the display off in the middle of a line (HBlank), and the
\* coincidence bit it left is set although the scanline differs from the compare
\* register
C1_Witness ==
    /\ entry = <<ModeHBlank, FALSE>>
    /\ ~ISBITSET(m_LCDControl, 7)
    /\ m_LCDControllerYCoordinate = 153
    /\ m_LYCompare # 153
    /\ ISBITSET(m_LCDControllerStatus, 2)

(***************************************************************************)
(* C2.  With the display on, one Step compares the clock (after adding the *)
(* cycles) with the duration of the mode it starts in, once: below it      *)
(* nothing changes but the clock; at or above it exactly that one duration *)
(* is subtracted and the mode moves along one edge of                      *)
(*   OAM -> VRAM, VRAM -> HBlank, HBlank -> OAM (line after increment not  *)
(*   144), HBlank -> VBlank (line after increment 144), VBlank -> OAM      *)
(*   (line after increment 154), or stays VBlank.                          *)
(***************************************************************************)
C2_Edge(from, line, to) ==
    CASE from = ModeReadingOAM -> to = ModeReadingOAMVRAM
      [] from = ModeReadingOAMVRAM -> to = ModeHBlank
      [] from = ModeHBlank -> to = (IF line = 144 THEN ModeVBlank ELSE ModeReadingOAM)
      [] from = ModeVBlank -> to = (IF line = 154 THEN ModeReadingOAM ELSE ModeVBlank)

C2_StepOnce(cycles) ==
    LET clock == m_ModeClock + cycles
        after == GETMODE(m_LCDControllerStatus')
        line == IF Mode \in {ModeHBlank, ModeVBlank}
                THEN (m_LCDControllerYCoordinate + 1) % 256
                ELSE m_LCDControllerYCoordinate
    IN  IF clock < Threshold(Mode)
        THEN /\ after = Mode
             /\ m_ModeClock' = clock
        ELSE /\ m_ModeClock' = clock - Threshold(Mode)
             /\ C2_Edge(Mode, line, after)

C2_OneTransitionPerStep ==
    \A cycles \in AllCycles :
        ISBITSET(m_LCDControl, 7) => ~ENABLED (Step(cycles) /\ ~C2_StepOnce(cycles))

\* A Step has just moved from OAM search to VRAM transfer and left a clock that is
\* already past the VRAM duration: only one duration was subtracted
C2_Witness ==
    /\ entry = <<ModeReadingOAM, TRUE>>
    /\ ISBITSET(m_LCDControl, 7)
    /\ Mode = ModeReadingOAMVRAM
    /\ m_ModeClock = 456 - ReadingOAMCycles

(***************************************************************************)
(* C3.  As stated: with the display on, a Step leaves the scanline as it   *)
(* was, or one higher (up to 153), or at 0 when it was 153; it changes it  *)
(* only when it starts in HBlank or VBlank and the clock has reached that  *)
(* mode's duration.                                                        *)
(***************************************************************************)
C3_StepLine(cycles) ==
    LET before == m_LCDControllerYCoordinate
        after == m_LCDControllerYCoordinate'
    IN  /\ \/ after = before
           \/ before < 153 /\ after = before + 1
           \/ before = 153 /\ after = 0
        /\ after # before =>
               /\ Mode \in {ModeHBlank, ModeVBlank}
               /\ m_ModeClock + cycles >= Threshold(Mode)

C3_ScanlineCycle ==
    \A cycles \in AllCycles :
        ISBITSET(m_LCDControl, 7) => ~ENABLED (Step(cycles) /\ ~C3_StepLine(cycles))

\* An operation other than Step, in every form either specification calls it
OtherOperation ==
    \/ \E w \in AllWrites : WriteByte(w[1], w[2])
    \/ \E pCallback \in BOOLEAN : SetVSyncCallback(pCallback)
    \/ PreBoot

(***************************************************************************)
(* C4.  As stated: with a CPU, a Step requests exactly one VBlank          *)
(* interrupt (INT40) when it moves the scanline to 144 and none otherwise, *)
(* whatever the STAT enable bits, and no other operation requests one.     *)
(***************************************************************************)
C4_AsStated ==
    CountKind(irq', INT40) =
        (IF m_LCDControllerYCoordinate # 144 /\ m_LCDControllerYCoordinate' = 144
         THEN 1 ELSE 0)

C4_VBlankInterruptOnLine144 ==
    /\ \A cycles \in AllCycles : m_CPU => ~ENABLED (Step(cycles) /\ ~C4_AsStated)
    /\ ~ENABLED (OtherOperation /\ irq' # irq)

(***************************************************************************)
(* C4, amended.  With a CPU, a Step requests exactly one VBlank interrupt  *)
(* when, with the display on, it leaves HBlank for VBlank (the scanline it *)
(* leaves is then 144), whatever the STAT enable bits, and none otherwise: *)
(* a scanline that reaches 144 while the mode is already VBlank requests   *)
(* none.  No other operation requests an interrupt.                        *)
(***************************************************************************)
C4_Amended ==
    LET entersVBlank == /\ ISBITSET(m_LCDControl, 7)
                        /\ Mode = ModeHBlank
                        /\ GETMODE(m_LCDControllerStatus') = ModeVBlank
    IN  /\ CountKind(irq', INT40) = (IF entersVBlank THEN 1 ELSE 0)
        /\ entersVBlank => m_LCDControllerYCoordinate' = 144

C4_VBlankInterruptOnEntry ==
    /\ \A cycles \in AllCycles : m_CPU => ~ENABLED (Step(cycles) /\ ~C4_Amended)
    /\ ~ENABLED (OtherOperation /\ irq' # irq)

\* The last Step entered VBlank from HBlank with the VBlank STAT enable bit clear,
\* and the one request it made is the VBlank interrupt
C4_Witness ==
    /\ entry = <<ModeHBlank, TRUE>>
    /\ m_CPU
    /\ Mode = ModeVBlank
    /\ m_LCDControllerYCoordinate = 144
    /\ m_LYCompare # 144
    /\ ~ISBITSET(m_LCDControllerStatus, 4)
    /\ irq = <<[kind |-> INT40, at |-> "VBlank"]>>

(***************************************************************************)
(* C5.  As stated: after a Step with the display on, the coincidence bit   *)
(* equals (scanline = compare register) on the scanline that Step left,    *)
(* and that Step requests the LCD-STAT interrupt for coincidence exactly   *)
(* when the two are equal and STAT bit 6 is set.                           *)
(***************************************************************************)
C5_AsStated ==
    LET equal == m_LCDControllerYCoordinate' = m_LYCompare
    IN  /\ ISBITSET(m_LCDControllerStatus', 2) = equal
        /\ (CountAt(irq', INT48, "Coincidence") = 1)
               = (equal /\ ISBITSET(m_LCDControllerStatus', 6))
        /\ CountAt(irq', INT48, "Coincidence") <= 1

C5_CoincidenceEveryStep ==
    \A cycles \in AllCycles :
        ISBITSET(m_LCDControl, 7) => ~ENABLED (Step(cycles) /\ ~C5_AsStated)

(***************************************************************************)
(* C5, amended.  After a Step with the display on, the coincidence bit     *)
(* equals (scanline = compare register) on the scanline that Step left;    *)
(* with a CPU, that Step requests the LCD-STAT interrupt for coincidence   *)
(* exactly when the two are equal and STAT bit 6 is set; without a CPU it  *)
(* requests nothing.                                                       *)
(***************************************************************************)
C5_Amended ==
    LET equal == m_LCDControllerYCoordinate' = m_LYCompare
    IN  /\ ISBITSET(m_LCDControllerStatus', 2) = equal
        /\ m_CPU => (CountAt(irq', INT48, "Coincidence") = 1)
                        = (equal /\ ISBITSET(m_LCDControllerStatus', 6))
        /\ CountAt(irq', INT48, "Coincidence") <= 1
        /\ ~m_CPU => irq' = <<>>

C5_CoincidenceWithCPU ==
    \A cycles \in AllCycles :
        ISBITSET(m_LCDControl, 7) => ~ENABLED (Step(cycles) /\ ~C5_Amended)

\* The last Step, with the display on and a CPU, stayed on the compared line and
\* requested the coincidence interrupt
C5_Witness ==
    /\ entry = <<ModeVBlank, TRUE>>
    /\ m_CPU
    /\ ISBITSET(m_LCDControl, 7)
    /\ m_LCDControllerYCoordinate = 144
    /\ m_LYCompare = 144
    /\ ISBITSET(m_LCDControllerStatus, 2)
    /\ ISBITSET(m_LCDControllerStatus, 6)
    /\ irq = <<[kind |-> INT48, at |-> "Coincidence"]>>

(***************************************************************************)
(* C6.  As stated: between operations the scanline is always in 0..153.    *)
(***************************************************************************)
C6_ScanlineInRange == m_LCDControllerYCoordinate \in 0..153

(***************************************************************************)
(* C7.  As stated: after a Step with the display on and fewer cycles than  *)
(* the shortest mode duration, the mode clock is below the duration of the *)
(* mode that Step left.                                                    *)
(***************************************************************************)
C7_AsStated == m_ModeClock' < Threshold(GETMODE(m_LCDControllerStatus'))

C7_ClockBelowThreshold ==
    \A cycles \in AllCycles :
        (ISBITSET(m_LCDControl, 7) /\ cycles < ReadingOAMCycles) =>
            ~ENABLED (Step(cycles) /\ ~C7_AsStated)

(***************************************************************************)
(* C7, amended.  The same, for a Step that finds the mode clock no greater *)
(* than the duration of the mode it starts in (which is so right after the *)
(* display-off reset, and after Steps that were all shorter than the       *)
(* shortest mode duration).                                                *)
(***************************************************************************)
C7_ClockBelowThresholdFromBelow ==
    \A cycles \in AllCycles :
        (/\ ISBITSET(m_LCDControl, 7)
         /\ cycles < ReadingOAMCycles
         /\ m_ModeClock <= Threshold(Mode)) =>
            ~ENABLED (Step(cycles) /\ ~C7_AsStated)

\* The last Step came right after the display-off reset was switched back on: it
\* found VBlank, left OAM search on line 0, and the clock is the short step it added
C7_Witness ==
    /\ entry = <<ModeVBlank, TRUE>>
    /\ ISBITSET(m_LCDControl, 7)
    /\ Mode = ModeReadingOAM
    /\ m_LCDControllerYCoordinate = 0
    /\ m_ModeClock = 76

(***************************************************************************)
(* C8.  For an address in video memory: while the display is on and the    *)
(* mode is VRAM transfer, ReadByte returns 0 and WriteByte leaves video    *)
(* memory as it was; in every other state WriteByte stores the value and   *)
(* ReadByte, in the state the write leaves, returns it.                    *)
(***************************************************************************)
C8_Access(address, val) ==
    IF ISBITSET(m_LCDControl, 7) /\ Mode = ModeReadingOAMVRAM
    THEN /\ ReadByte(address) = 0
         /\ m_VRAM' = m_VRAM
    ELSE /\ m_VRAM' = [m_VRAM EXCEPT ![address - 32768] = val]
         /\ ReadByte(address)' = val

C8_VideoMemoryArbitration ==
    \A w \in VideoWrites : ~ENABLED (WriteByte(w[1], w[2]) /\ ~C8_Access(w[1], w[2]))

\* A value written while access was open is held, and is unreadable during VRAM transfer
C8_Witness ==
    /\ ISBITSET(m_LCDControl, 7)
    /\ Mode = ModeReadingOAMVRAM
    /\ m_VRAM[0] = 90
    /\ m_VRAM[VRAMLast - VRAMFirst] = 165
    /\ ReadByte(VRAMFirst) = 0

(***************************************************************************)
(* C9.  For an address in object memory: while the display is on and the   *)
(* mode is OAM search or VRAM transfer, ReadByte returns 0 and WriteByte   *)
(* leaves object memory as it was; in every other state WriteByte stores   *)
(* the value and ReadByte, in the state the write leaves, returns it.      *)
(***************************************************************************)
C9_Access(address, val) ==
    IF ISBITSET(m_LCDControl, 7) /\ Mode \in {ModeReadingOAM, ModeReadingOAMVRAM}
    THEN /\ ReadByte(address) = 0
         /\ m_OAM' = m_OAM
    ELSE /\ m_OAM' = [m_OAM EXCEPT ![address - 65024] = val]
         /\ ReadByte(address)' = val

C9_ObjectMemoryArbitration ==
    \A w \in ObjectWrites : ~ENABLED (WriteByte(w[1], w[2]) /\ ~C9_Access(w[1], w[2]))

\* A value written while access was open is held, and is unreadable during VRAM transfer
C9_Witness ==
    /\ ISBITSET(m_LCDControl, 7)
    /\ Mode = ModeReadingOAMVRAM
    /\ m_OAM[OAMLast - OAMFirst] = 60
    /\ m_OAM[0] = 165
    /\ ReadByte(OAMLast) = 0

(***************************************************************************)
(* C10.  A write to the status register keeps its bits 2-0 and takes bits  *)
(* 7-3 from the value written; no operation other than Step changes bits   *)
(* 2-0, so no write changes the mode.                                      *)
(***************************************************************************)
C10_Write(val) ==
    /\ m_LCDControllerStatus' % 8 = m_LCDControllerStatus % 8
    /\ m_LCDControllerStatus' \div 8 = val \div 8

C10_StatusLowBitsReadOnly ==
    /\ \A w \in StatusWrites : ~ENABLED (WriteByte(w[1], w[2]) /\ ~C10_Write(w[2]))
    /\ ~ENABLED (OtherOperation /\ m_LCDControllerStatus' % 8 # m_LCDControllerStatus % 8)

\* The status register holds the top five bits of a written 79 (all of whose low
\* bits are set) over low bits that are not those of the written value
C10_Witness ==
    /\ m_LCDControllerStatus \div 8 = 9
    /\ Mode = ModeHBlank
    /\ ~ISBITSET(m_LCDControllerStatus, 2)

(***************************************************************************)
(* C11.  A write of any byte to the scanline register, in any mode and     *)
(* with the display on or off, leaves the scanline at 0, so that the read  *)
(* of the register that follows returns 0, and changes neither the mode    *)
(* nor the mode clock.                                                     *)
(***************************************************************************)
ScanlineBytes == {0, 1, 85, 144, 255}

C11_Write ==
    /\ m_LCDControllerYCoordinate' = 0
    /\ ReadByte(LCDControllerYCoordinate)' = 0
    /\ GETMODE(m_LCDControllerStatus') = GETMODE(m_LCDControllerStatus)
    /\ m_ModeClock' = m_ModeClock

C11_ScanlineWriteResets ==
    \A val \in ScanlineBytes :
        ~ENABLED (WriteByte(LCDControllerYCoordinate, val) /\ ~C11_Write)

\* The last Step rendered line 1 with the display on, and the scanline is 0 in the
\* mode and at the clock that Step left: the scanline register was written since
C11_Witness ==
    /\ rendered = <<1>>
    /\ ISBITSET(m_LCDControl, 7)
    /\ Mode = ModeHBlank
    /\ m_ModeClock > 0
    /\ m_LCDControllerYCoordinate = 0

(***************************************************************************)
(* C12.  With an external memory, a write of V to the DMA trigger, in      *)
(* every mode and with the display on or off, reads the 160 addresses      *)
(* V*256, V*256+1, ..., V*256+159 of the external memory in that order and *)
(* no other, leaves in object memory byte i the byte read at V*256+i,      *)
(* keeps no value for the trigger register (its read stays 0) and changes  *)
(* nothing else of the unit.                                               *)
(***************************************************************************)
DMABytes == {0, 193, 241, 255}

C12_Transfer(val) ==
    /\ \A offset \in DOMAIN m_OAM : m_OAM'[offset] = ExternalByte(val * 256 + offset)
    /\ reads' = [i \in 1..160 |-> val * 256 + i - 1]
    /\ ReadByte(DMATransferAndStartAddress)' = 0
    /\ failed' = FALSE
    /\ m_ModeClock' = m_ModeClock
    /\ m_LCDControllerStatus' = m_LCDControllerStatus
    /\ m_LCDControllerYCoordinate' = m_LCDControllerYCoordinate
    /\ m_VRAM' = m_VRAM
    /\ regs' = regs
    /\ m_pVSyncCallback' = m_pVSyncCallback

C12_DMACopies ==
    \A val \in DMABytes :
        m_MMU => ~ENABLED (WriteByte(DMATransferAndStartAddress, val) /\ ~C12_Transfer(val))

\* A transfer from 0xC100 was made during the pixel transfer of a line, when both
\* memories are closed to WriteByte, and object memory holds the bytes read
C12_Witness ==
    /\ ISBITSET(m_LCDControl, 7)
    /\ Mode = ModeReadingOAMVRAM
    /\ Len(reads) = 160
    /\ reads[1] = 49408
    /\ reads[160] = 49567
    /\ m_OAM[0] = ExternalByte(49408)
    /\ m_OAM[159] = ExternalByte(49567)
    /\ m_OAM[0] # m_OAM[159]

(***************************************************************************)
(* C13.  As stated: when a collaborator is absent, every operation that    *)
(* would call it completes and the missing call is a no-op: a Step without *)
(* a CPU or without a callback requests and calls nothing, and a write to  *)
(* the DMA trigger without an external memory leaves object memory as it   *)
(* was.                                                                    *)
(***************************************************************************)
C13_StepTolerates ==
    /\ failed' = FALSE
    /\ ~m_CPU => irq' = <<>>
    /\ ~m_pVSyncCallback => vsync' = 0

C13_DMATolerates ==
    /\ failed' = FALSE
    /\ m_OAM' = m_OAM
    /\ reads' = <<>>

C13_AbsentCollaboratorsTolerated ==
    /\ \A cycles \in AllCycles : ~ENABLED (Step(cycles) /\ ~C13_StepTolerates)
    /\ \A val \in DMABytes :
           ~m_MMU => ~ENABLED (WriteByte(DMATransferAndStartAddress, val) /\ ~C13_DMATolerates)

(***************************************************************************)
(* C14.  The registered VSync callback is invoked exactly once by each     *)
(* Step that goes from HBlank to VBlank, which leaves scanline 144, and    *)
(* by no other Step (the display-off reset into VBlank included) and no    *)
(* other operation.  With no callback registered the same Step enters      *)
(* VBlank in the same way (mode, scanline, clock, VBlank interrupt) and    *)
(* calls nothing.                                                          *)
(***************************************************************************)
C14_Step(cycles) ==
    LET enters == /\ ISBITSET(m_LCDControl, 7)
                  /\ Mode = ModeHBlank
                  /\ GETMODE(m_LCDControllerStatus') = ModeVBlank
    IN  /\ vsync' = IF enters /\ m_pVSyncCallback THEN 1 ELSE 0
        /\ enters => /\ m_LCDControllerYCoordinate' = 144
                      /\ m_ModeClock' = m_ModeClock + cycles - 204
                      /\ CountKind(irq', INT40) = IF m_CPU THEN 1 ELSE 0

C14_CallbackOnVBlankEntry ==
    /\ \A cycles \in AllCycles : ~ENABLED (Step(cycles) /\ ~C14_Step(cycles))
    /\ ~ENABLED (OtherOperation /\ vsync' # vsync)

\* The last Step went from HBlank to VBlank with a callback registered and called it
C14_Witness ==
    /\ entry = <<ModeHBlank, TRUE>>
    /\ Mode = ModeVBlank
    /\ m_LCDControllerYCoordinate = 144
    /\ m_pVSyncCallback
    /\ vsync = 1

(***************************************************************************)
(* C15.  With the display on and no write, a frame is 154 lines of 456     *)
(* clocks.  Counting a state by the clocks of the frame that are behind it *)
(* (456 for every line, 80 for a finished OAM search, 80 + 172 for a       *)
(* finished pixel transfer, plus the mode clock), every Step(4) taken with *)
(* the mode clock below the duration of the mode moves the count on by     *)
(* exactly 4 modulo 70224 and leaves the clock below the duration again;   *)
(* the count is 0 exactly at scanline 0 in OAM search with clock 0, and    *)
(* Step enters VBlank exactly when it moves the count to 65664.  Hence,    *)
(* starting at count 0, VBlank is entered after 65664 clocks and the start *)
(* is reached again after 70224.  For every Step, whatever its cycles, the *)
(* duration it subtracts moves the count of the durations behind the state *)
(* on by that much modulo 70224, and it enters VBlank exactly when it      *)
(* subtracts and that count becomes 65664: the durations subtracted from   *)
(* one VBlank entry to the next sum to 70224.                              *)
(***************************************************************************)
\* The display is on and the mode agrees with the scanline
C15_InFrame ==
    /\ ISBITSET(m_LCDControl, 7)
    /\ m_LCDControllerYCoordinate <= 153
    /\ (Mode = ModeVBlank) = (m_LCDControllerYCoordinate >= 144)

\* The durations subtracted since the frame began
C15_Subtracted ==
    m_LCDControllerYCoordinate * 456
        + (CASE Mode = ModeReadingOAM -> 0
             [] Mode = ModeReadingOAMVRAM -> 80
             [] Mode = ModeHBlank -> 80 + 172
             [] Mode = ModeVBlank -> 0)

\* The clocks elapsed since the frame began
C15_Elapsed == C15_Subtracted + m_ModeClock

C15_AtStart ==
    /\ m_LCDControllerYCoordinate = 0
    /\ Mode = ModeReadingOAM
    /\ m_ModeClock = 0

C15_EntersVBlank == Mode # ModeVBlank /\ GETMODE(m_LCDControllerStatus') = ModeVBlank

C15_Tick ==
    /\ C15_InFrame'
    /\ m_ModeClock' < Threshold(GETMODE(m_LCDControllerStatus'))
    /\ C15_Elapsed' = (C15_Elapsed + 4) % 70224
    /\ C15_EntersVBlank = (C15_Elapsed' = 65664)
    /\ C15_AtStart' = (C15_Elapsed' = 0)

C15_Subtract(cycles) ==
    LET subtracted == m_ModeClock + cycles - m_ModeClock'
    IN  /\ C15_InFrame'
        /\ subtracted \in {0, 80, 172, 204, 456}
        /\ C15_Subtracted' = (C15_Subtracted + subtracted) % 70224
        /\ C15_EntersVBlank = (subtracted > 0 /\ C15_Subtracted' = 65664)

C15_FrameLength ==
    C15_InFrame =>
        /\ m_ModeClock < Threshold(Mode) => ~ENABLED (Step(4) /\ ~C15_Tick)
        /\ \A cycles \in FrameCycles \cup AllCycles :
               ~ENABLED (Step(cycles) /\ ~C15_Subtract(cycles))

\* The Step that ends a frame: with the display on it left VBlank for scanline 0 and
\* clock 0, after the lines 144 to 153 that follow a VBlank entry
C15_Witness ==
    /\ entry = <<ModeVBlank, TRUE>>
    /\ C15_InFrame
    /\ C15_AtStart

(***************************************************************************)
(* C16.  With a CPU and the display on, the Step that goes from the pixel  *)
(* transfer to HBlank requests the LCD-STAT interrupt for that entry       *)
(* exactly when STAT bit 3 is set, and the Step that goes from HBlank to   *)
(* VBlank requests the LCD-STAT interrupt for that entry exactly when STAT *)
(* bit 4 is set, next to the VBlank interrupt it requests in any case; a   *)
(* Step that makes neither entry requests neither.                         *)
(***************************************************************************)
C16_Step ==
    LET after == GETMODE(m_LCDControllerStatus')
        toHBlank == Mode = ModeReadingOAMVRAM /\ after = ModeHBlank
        toVBlank == Mode = ModeHBlank /\ after = ModeVBlank
    IN  /\ CountAt(irq', INT48, "HBlank")
               = IF toHBlank /\ ISBITSET(m_LCDControllerStatus, 3) THEN 1 ELSE 0
        /\ CountAt(irq', INT48, "VBlank")
               = IF toVBlank /\ ISBITSET(m_LCDControllerStatus, 4) THEN 1 ELSE 0
        /\ toVBlank => CountKind(irq', INT40) = 1

C16_StatInterruptOnEntry ==
    \A cycles \in AllCycles :
        (m_CPU /\ ISBITSET(m_LCDControl, 7)) => ~ENABLED (Step(cycles) /\ ~C16_Step)

\* The last Step entered HBlank with a CPU and STAT bit 3 set, and requested the
\* LCD-STAT interrupt for it
C16_Witness ==
    /\ entry = <<ModeReadingOAMVRAM, TRUE>>
    /\ Mode = ModeHBlank
    /\ m_CPU
    /\ ISBITSET(m_LCDControllerStatus, 3)
    /\ CountAt(irq, INT48, "HBlank") = 1

(***************************************************************************)
(* C17.  As stated: whatever the operations before, a scanline is rendered *)
(* only while the scanline is in 0..143, so that every store of the        *)
(* renderers, at index scanline * 160 + column, is inside the 160 x 144    *)
(* framebuffer.                                                            *)
(***************************************************************************)
C17_RendersInsideFramebuffer ==
    \A i \in DOMAIN rendered :
        /\ rendered[i] \in 0..143
        /\ rendered[i] * 160 + 159 < 160 * 144

(***************************************************************************)
(* C18.  As stated: with the display on and the scanline register not      *)
(* written, every frame renders the visible scanlines 0..143 once each and *)
(* in ascending order.  Step by Step: a scanline is rendered by the Step   *)
(* that goes from the pixel transfer to HBlank and by no other (none in    *)
(* VBlank), the row is the current scanline and is a visible one, the end  *)
(* of HBlank moves to the next scanline, and the frame is handed over,     *)
(* with VBlank entered, exactly at the end of the HBlank of scanline 143.  *)
(***************************************************************************)
C18_Step ==
    LET after == GETMODE(m_LCDControllerStatus')
        toHBlank == Mode = ModeReadingOAMVRAM /\ after = ModeHBlank
        endOfLine == Mode = ModeHBlank /\ after # ModeHBlank
    IN  /\ rendered' = IF toHBlank THEN <<m_LCDControllerYCoordinate>> ELSE <<>>
        /\ toHBlank => m_LCDControllerYCoordinate \in 0..143
        /\ endOfLine => /\ m_LCDControllerYCoordinate' = m_LCDControllerYCoordinate + 1
                         /\ (after = ModeVBlank) = (m_LCDControllerYCoordinate = 143)
        /\ vsync' > 0 => endOfLine /\ m_LCDControllerYCoordinate = 143

C18_VisibleLinesOncePerFrame ==
    \A cycles \in AllCycles :
        ISBITSET(m_LCDControl, 7) => ~ENABLED (Step(cycles) /\ ~C18_Step)

(***************************************************************************)
(* C19.  As stated: a sprite pixel that is not transparent is stored when  *)
(* the sprite is above the background and, when it is behind, exactly when *)
(* the framebuffer pixel holds shade 0, the lightest, which is the value a *)
(* scanline is filled with when the background is off.  For sprite 0 of    *)
(* SpecRender, whose first row is eight pixels of colour 1 of object       *)
(* palette 0 on the first eight pixels of row 0: after the Step that       *)
(* renders row 0 with sprites on, each of these pixels holds the sprite's  *)
(* shade if the sprite is above the background or the background pixel is  *)
(* of shade 0, and the background pixel otherwise.                         *)
(***************************************************************************)
C19_SpriteOnRow ==
    /\ ISBITSET(m_LCDControl, 7)
    /\ ISBITSET(m_LCDControl, 1)
    /\ ~ISBITSET(m_LCDControl, 2)
    /\ Mode = ModeReadingOAMVRAM
    /\ m_LCDControllerYCoordinate = 0
    /\ m_OAM[0] = 16 /\ m_OAM[1] = 8 /\ m_OAM[2] = 1
    /\ m_OAM[3] \in {0, 128}
    /\ VRAMAt(16) = 255 /\ VRAMAt(17) = 0

C19_Composite ==
    LET line == [StepEntry EXCEPT !.stat = SETMODE(@, ModeHBlank)]
        background == RenderBackgroundScanline(line).pixels
        shade == GBColors[PaletteEntry(m_ObjectPalette0Data, 1) + 1]
    IN  \A index \in PixelCells :
            m_DisplayPixels'[index] =
                IF ~ISBITSET(m_OAM[3], 7) \/ background[index] = GBColors[1]
                THEN shade
                ELSE background[index]

C19_SpriteCompositing ==
    \A cycles \in RenderCycles :
        C19_SpriteOnRow =>
            ~ENABLED (/\ Step(cycles)
                      /\ GETMODE(m_LCDControllerStatus') = ModeHBlank
                      /\ ~C19_Composite)

(***************************************************************************)
(* C20.  As stated: in every state and for every number of cycles, Step    *)
(* leaves video memory, object memory, the display-control register, bits  *)
(* 7-3 of the status register, the scroll, scanline-compare, window and    *)
(* palette registers and the registered observer as they were.             *)
(***************************************************************************)
C20_Frame ==
    /\ m_VRAM' = m_VRAM
    /\ m_OAM' = m_OAM
    /\ regs' = regs
    /\ m_LCDControllerStatus' \div 8 = m_LCDControllerStatus \div 8
    /\ m_pVSyncCallback' = m_pVSyncCallback

C20_StepChangesOnlyTiming ==
    \A cycles \in AllCycles : ~ENABLED (Step(cycles) /\ ~C20_Frame)

(***************************************************************************)
(* C21.  Entering the OAM search, from HBlank on a scanline other than 144 *)
(* or from VBlank when the scanline wraps to 0, requests no interrupt of   *)
(* its own: the Step that makes the entry requests at most the coincidence *)
(* interrupt, and that one exactly when there is a CPU, STAT bit 6 is set  *)
(* and the scanline equals the compare register.  STAT bit 5 has no effect *)
(* on any Step: the Step taken from the same state with bit 5 the other    *)
(* way requests the same interrupts, renders the same, and leaves the same *)
(* clock, scanline and status register but for bit 5, which Step leaves as *)
(* it finds it.  No write requests an interrupt, so the requests of a      *)
(* sequence of operations are the same with bit 5 set or clear.            *)
(***************************************************************************)
C21_OtherWay(stat) ==
    IF ISBITSET(stat, 5) THEN CLEARBIT(stat, 5) ELSE SETBIT(stat, 5)

\* What Step makes of the state that differs in STAT bit 5 only
C21_Twin(cycles) ==
    LET twin == [StepEntry EXCEPT !.stat = C21_OtherWay(@)]
    IN  IF ~IsLCDDisplayEnabled
        THEN StepDisplayOff(twin)
        ELSE Coincidence(StepMode([twin EXCEPT !.clock = @ + cycles]))

C21_Entry ==
    LET entersSearch == /\ Mode \in {ModeHBlank, ModeVBlank}
                        /\ GETMODE(m_LCDControllerStatus') = ModeReadingOAM
        coincides == /\ m_CPU
                     /\ ISBITSET(m_LCDControllerStatus, 6)
                     /\ m_LYCompare = m_LCDControllerYCoordinate'
    IN  entersSearch =>
            /\ \A i \in DOMAIN irq' : irq'[i] = [kind |-> INT48, at |-> "Coincidence"]
            /\ Len(irq') = IF coincides THEN 1 ELSE 0

C21_Step(cycles) ==
    /\ C21_Entry
    /\ ISBITSET(m_LCDControllerStatus', 5) = ISBITSET(m_LCDControllerStatus, 5)
    /\ \E other \in {C21_Twin(cycles)} :
           /\ irq' = other.irq
           /\ m_LCDControllerStatus' = C21_OtherWay(other.stat)
           /\ m_ModeClock' = other.clock
           /\ m_LCDControllerYCoordinate' = other.ly
           /\ rendered' = other.rendered
           /\ vsync' = other.vsync
           /\ m_DisplayPixels' = other.pixels

====
